---- MODULE Spec2Model ----
(***************************************************************************)
(* Model of the bencher package of orijtech/opencensus-tools: the          *)
(* snapshot-compare-promote pipeline (Request.BenchmarkAndEmail,           *)
(* Request.Benchmark, runGoBenchmarks, Request.uploadToGCS,                *)
(* uploadBenchmarksToGCS) and its HTTP caller handleBenchmarking.          *)
(*                                                                         *)
(* Byte strings (the runner's output, a stored object, a report) are       *)
(* sequences of one-character strings.  Object keys, variant names and     *)
(* error messages are TLA+ strings built with \o as the code builds them   *)
(* with + and fmt.                                                         *)
(***************************************************************************)
EXTENDS Integers, Sequences, FiniteSets, TLC

----------------------------------------------------------------------------
(* Bounds of the model.                                                    *)

\* Largest value of the wall clock (unix seconds).
MaxTime == 1
\* Number of requests the server handles in one behaviour.
MaxRuns == 3
\* Length of a calendar day in clock units (86400 s, scaled).
DayLen == 1
\* Number of requests in the behaviours where requests overlap, are
\* cancelled or arrive incomplete.
MaxRequests == 2

----------------------------------------------------------------------------
(* Bytes and lines.                                                        *)

NL == "\n"

\* unicode.IsSpace for the characters that occur in the outputs below.
IsSpace(c) == c \in {" ", "\t", "\r", NL}

RECURSIVE TrimLeft(_)
TrimLeft(s) ==
  IF s # <<>> /\ IsSpace(Head(s)) THEN TrimLeft(Tail(s)) ELSE s

RECURSIVE TrimRight(_)
TrimRight(s) ==
  IF s # <<>> /\ IsSpace(s[Len(s)]) THEN TrimRight(SubSeq(s, 1, Len(s) - 1)) ELSE s

\* strings.TrimSpace
TrimSpace(s) == TrimRight(TrimLeft(s))

\* strings.HasPrefix
HasPrefix(s, prefix) ==
  /\ Len(s) >= Len(prefix)
  /\ SubSeq(s, 1, Len(prefix)) = prefix

\* strings.Split(s, sep) for a one-character separator: always at least one
\* piece, the last piece is what follows the last separator.
RECURSIVE Split(_, _)
Split(s, sep) ==
  IF \A i \in 1..Len(s) : s[i] # sep
  THEN <<s>>
  ELSE LET i == CHOOSE j \in 1..Len(s) :
                  s[j] = sep /\ \A k \in 1..(j - 1) : s[k] # sep
       IN  <<SubSeq(s, 1, i - 1)>> \o Split(SubSeq(s, i + 1, Len(s)), sep)

\* strings.Join(elems, sep) for a one-character separator.
RECURSIVE Join(_, _)
Join(elems, sep) ==
  IF elems = <<>> THEN <<>>
  ELSE IF Len(elems) = 1 THEN elems[1]
  ELSE elems[1] \o <<sep>> \o Join(Tail(elems), sep)

\* The literal "Benchmark" of runGoBenchmarks.
BenchmarkPrefix == <<"B", "e", "n", "c", "h", "m", "a", "r", "k">>

\* The filter loop of runGoBenchmarks: trimmed lines that begin with "Benchmark".
RECURSIVE benchmarkLines(_)
benchmarkLines(lines) ==
  IF lines = <<>> THEN <<>>
  ELSE LET line == TrimSpace(Head(lines))
       IN  (IF HasPrefix(line, BenchmarkPrefix) THEN <<line>> ELSE <<>>)
             \o benchmarkLines(Tail(lines))

ErrNoChanges == "no changes detected!"
ErrNoBenchmarks == "no benchmarks found!"
\* The *exec.ExitError of cmd.Output(): its message is the state of the
\* process, "exit status N" for a runner that exited on its own and
\* "signal: killed" for one that was killed.
ErrExec == "exit status 1"
ErrKilled == "signal: killed"
NoErr == "nil"

\* runGoBenchmarks without its check for an empty list of lines.
runGoBenchmarksUnchecked(cmdErr, output) ==
  IF cmdErr # NoErr THEN [blob |-> <<>>, err |-> cmdErr]
  ELSE [blob |-> Join(benchmarkLines(Split(output, NL)), NL), err |-> NoErr]

\* runGoBenchmarks after the subprocess: [blob, err].  cmdErr is the error
\* of cmd.Output(), returned as it is; output is the standard output.
runGoBenchmarks(cmdErr, output) ==
  IF cmdErr # NoErr THEN [blob |-> <<>>, err |-> cmdErr]
  ELSE LET kept == benchmarkLines(Split(output, NL))
       IN  IF Len(kept) = 0
           THEN [blob |-> <<>>, err |-> ErrNoBenchmarks]
           ELSE [blob |-> Join(kept, NL), err |-> NoErr]

----------------------------------------------------------------------------
(* The Comparator: benchstat.Collection as uploadToGCS configures it.      *)
(* A measurement line is  Benchmark<name> {<digit><unit>}  , the fields    *)
(* separated by blanks; lines and fields of any other shape are skipped,   *)
(* as the benchmark parser skips what it cannot read.  The configuration   *)
(* lines (pkg:, goos:, goarch:) never reach the Comparator, because        *)
(* runGoBenchmarks keeps "Benchmark" lines only, so SplitBy yields one     *)
(* group and there is one table per unit.                                  *)

\* const unchanged = int(0)
unchanged == 0

DigitChars == <<"0", "1", "2", "3", "4", "5", "6", "7", "8", "9">>

IsDigit(c) == \E d \in 1..10 : DigitChars[d] = c

DigitVal(c) == (CHOOSE d \in 1..10 : DigitChars[d] = c) - 1

\* fmt's %d for a natural number, as characters.
RECURSIVE FormatInt(_)
FormatInt(n) ==
  IF n < 10 THEN <<DigitChars[n + 1]>>
  ELSE FormatInt(n \div 10) \o <<DigitChars[(n % 10) + 1]>>

\* strings.Fields for blank-separated fields.
RECURSIVE DropEmpty(_)
DropEmpty(pieces) ==
  IF pieces = <<>> THEN <<>>
  ELSE (IF Head(pieces) = <<>> THEN <<>> ELSE <<Head(pieces)>>)
         \o DropEmpty(Tail(pieces))

Fields(line) == DropEmpty(Split(line, " "))

\* The samples one line contributes: one per well-formed <digit><unit> field.
RECURSIVE FieldSamples(_, _)
FieldSamples(name, fields) ==
  IF fields = <<>> THEN <<>>
  ELSE LET f == Head(fields)
       IN  (IF Len(f) = 2 /\ IsDigit(f[1]) /\ ~IsDigit(f[2])
            THEN <<[name |-> name, unit |-> f[2], value |-> DigitVal(f[1])]>>
            ELSE <<>>)
             \o FieldSamples(name, Tail(fields))

RECURSIVE LineSamples(_)
LineSamples(lines) ==
  IF lines = <<>> THEN <<>>
  ELSE LET fs == Fields(Head(lines))
       IN  (IF fs # <<>> /\ HasPrefix(fs[1], BenchmarkPrefix)
            THEN FieldSamples(fs[1], Tail(fs))
            ELSE <<>>)
             \o LineSamples(Tail(lines))

\* Collection.AddConfig: the samples of one configuration, in file order.
AddConfig(data) == LineSamples(Split(data, NL))

\* The distinct values of f over a sequence of samples, in order of first
\* appearance (Collection.Units, Collection.Benchmarks).
RECURSIVE FirstSeen(_, _)
FirstSeen(vals, seen) ==
  IF vals = <<>> THEN <<>>
  ELSE IF Head(vals) \in seen THEN FirstSeen(Tail(vals), seen)
  ELSE <<Head(vals)>> \o FirstSeen(Tail(vals), seen \cup {Head(vals)})

UnitsOf(samples) == FirstSeen([i \in 1..Len(samples) |-> samples[i].unit], {})

NamesOf(samples) == FirstSeen([i \in 1..Len(samples) |-> samples[i].name], {})

RECURSIVE SumOf(_)
SumOf(vals) == IF vals = <<>> THEN 0 ELSE Head(vals).value + SumOf(Tail(vals))

\* Metrics of one (benchmark, unit) in one configuration: [sum, n].
Metric(samples, name, unit) ==
  LET own == SelectSeq(samples, LAMBDA x : x.name = name /\ x.unit = unit)
  IN  [sum |-> SumOf(own), n |-> Len(own)]

Abs(x) == IF x < 0 THEN -x ELSE x

\* The significance threshold on the difference of the means that stands for
\* the U-test's pval < Alpha.
SigDelta == 2

\* One row of a table.  Change is set only when the test is significant and
\* the means differ: +1 for an improvement (smaller is better), -1 otherwise.
\* A row whose change is never 0: equal means count as slower.
RowNeverUnchanged(name, old, new) ==
  LET diff == new.sum * old.n - old.sum * new.n
  IN  [Benchmark |-> name, Old |-> old, New |-> new,
       Change |-> IF diff < 0 THEN 1 ELSE -1]

Row(name, old, new) ==
  LET diff == new.sum * old.n - old.sum * new.n
      significant == Abs(diff) >= SigDelta * old.n * new.n
  IN  [Benchmark |-> name, Old |-> old, New |-> new,
       Change |-> IF significant /\ diff # 0
                  THEN (IF diff < 0 THEN 1 ELSE -1)
                  ELSE 0]

\* The rows of the table of one unit: a benchmark missing on either side
\* has no row.
RECURSIVE TableRows(_, _, _, _)
TableRows(names, unit, before, after) ==
  IF names = <<>> THEN <<>>
  ELSE LET old == Metric(before, Head(names), unit)
           new == Metric(after, Head(names), unit)
       IN  (IF old.n = 0 \/ new.n = 0 THEN <<>>
            ELSE <<Row(Head(names), old, new)>>)
             \o TableRows(Tail(names), unit, before, after)

RECURSIVE TablesOf(_, _, _, _)
TablesOf(units, names, before, after) ==
  IF units = <<>> THEN <<>>
  ELSE LET rows == TableRows(names, Head(units), before, after)
       IN  (IF Len(rows) > 0
            THEN <<[Metric |-> Head(units), Rows |-> rows]>>
            ELSE <<>>)
             \o TablesOf(Tail(units), names, before, after)

\* c.AddConfig("before", ...); c.AddConfig("after", ...); c.Tables()
Tables(beforeBytes, afterBlob) ==
  LET before == AddConfig(beforeBytes)
      after == AddConfig(afterBlob)
  IN  TablesOf(UnitsOf(before \o after), NamesOf(before \o after), before, after)

\* The inner loop of the filter: the rows whose Change is not `unchanged`.
RECURSIVE changedRows(_)
changedRows(rows) ==
  IF rows = <<>> THEN <<>>
  ELSE (IF Head(rows).Change # unchanged THEN <<Head(rows)>> ELSE <<>>)
         \o changedRows(Tail(rows))

\* The filter without `continue`: tables left without rows are kept.
RECURSIVE changedTablesKeepEmpty(_)
changedTablesKeepEmpty(tables) ==
  IF tables = <<>> THEN <<>>
  ELSE <<[Metric |-> Head(tables).Metric, Rows |-> changedRows(Head(tables).Rows)]>>
         \o changedTablesKeepEmpty(Tail(tables))

\* The filter without `table.Rows = rows`: a surviving table keeps all rows.
RECURSIVE changedTablesKeepRows(_)
changedTablesKeepRows(tables) ==
  IF tables = <<>> THEN <<>>
  ELSE (IF Len(changedRows(Head(tables).Rows)) = 0 THEN <<>>
        ELSE <<Head(tables)>>)
         \o changedTablesKeepRows(Tail(tables))

\* The filter that puts each surviving table in front of the earlier ones.
RECURSIVE changedTablesNewestFirst(_)
changedTablesNewestFirst(tables) ==
  IF tables = <<>> THEN <<>>
  ELSE LET rows == changedRows(Head(tables).Rows)
       IN  changedTablesNewestFirst(Tail(tables))
             \o (IF Len(rows) = 0 THEN <<>>
                 ELSE <<[Metric |-> Head(tables).Metric, Rows |-> rows]>>)

\* The outer loop of the filter: tables left without rows are skipped, the
\* others carry their surviving rows.
RECURSIVE changedTables(_)
changedTables(tables) ==
  IF tables = <<>> THEN <<>>
  ELSE LET rows == changedRows(Head(tables).Rows)
       IN  (IF Len(rows) = 0 THEN <<>>
            ELSE <<[Metric |-> Head(tables).Metric, Rows |-> rows]>>)
             \o changedTables(Tail(tables))

----------------------------------------------------------------------------
(* The renderings of a table list.                                         *)

FormatMean(m) == FormatInt(m.sum) \o <<"/">> \o FormatInt(m.n)

FormatRow(row) ==
  row.Benchmark \o <<" ">> \o FormatMean(row.Old) \o <<" ">>
    \o FormatMean(row.New) \o <<" ">>
    \o <<(IF row.Change > 0 THEN "-" ELSE IF row.Change < 0 THEN "+" ELSE "~")>>

RECURSIVE FormatRows(_)
FormatRows(rows) ==
  IF rows = <<>> THEN <<>>
  ELSE FormatRow(Head(rows)) \o <<NL>> \o FormatRows(Tail(rows))

\* benchstat.FormatText: per table a header line, then one line per row.
RECURSIVE FormatText(_)
FormatText(tables) ==
  IF tables = <<>> THEN <<>>
  ELSE <<"n", "a", "m", "e", " ", Head(tables).Metric, NL>>
         \o FormatRows(Head(tables).Rows) \o FormatText(Tail(tables))

RECURSIVE FormatHTMLRows(_)
FormatHTMLRows(rows) ==
  IF rows = <<>> THEN <<>>
  ELSE <<"<tr>">> \o FormatRow(Head(rows)) \o <<"</tr>">>
         \o FormatHTMLRows(Tail(rows))

\* benchstat.FormatHTML: per table a tbody with a header and one tr per row.
RECURSIVE FormatHTML(_)
FormatHTML(tables) ==
  IF tables = <<>> THEN <<>>
  ELSE <<"<tbody>", "<th>", Head(tables).Metric, "</th>">>
         \o FormatHTMLRows(Head(tables).Rows) \o <<"</tbody>">>
         \o FormatHTML(Tail(tables))

----------------------------------------------------------------------------
(* Inputs.                                                                 *)

\* Lines the benchmark runner prints.
LineA1 == BenchmarkPrefix \o <<"A", " ", "1", "n", " ", "1", "b">>

LineA3 == <<" ">> \o BenchmarkPrefix \o <<"A", " ", "3", "n", " ", "3", "b", "\t">>

LineB1 == BenchmarkPrefix \o <<"B", " ", "1", "n", " ", "1", "c">>

LineOk == <<"o", "k", " ", "B", "e", "n", "c", "h", "m", "a", "r", "k">>

LineBench == <<"\t", "B", "e", "n", "c", "h">>

\* Standard outputs of the runner, as lines: nothing; lines none of which
\* is a measurement; a suite of two benchmarks; the suite with A three times
\* slower on both of its units; the suite with A measured twice, so that
\* its mean moves by less than the threshold; benchmark B alone.
OutputLines ==
  { <<>>,
    <<LineOk, LineBench, <<>>>>,
    <<LineOk, LineA1, LineB1, <<>>>>,
    <<LineA3, LineOk, LineB1>>,
    <<LineA1, LineA3, LineB1>>,
    <<LineB1, LineBench>> }

\* The outputs as bytes.
Outputs == {Join(ls, NL) : ls \in OutputLines}

Repos == {"A", "B"}

RecipientLists == {<<"dev@example.org">>}

\* The zero values of git_repo_url and alert_emails, which the JSON decoder
\* leaves in a benchRequest that lacks them.
BlankRepo == ""

NoRecipients == <<>>

Procs == {1, 2}

----------------------------------------------------------------------------
(* Keys and collaborators.                                                 *)

\* flag "bucket", default value
gcsBucket == "census-demos"

\* inBenchmarksDir without the repository in front.
inBenchmarksDirShared(GitRepoURL, suffix) == "benchmarks/" \o suffix

\* inBenchmarksDir of uploadToGCS
inBenchmarksDir(GitRepoURL, suffix) == GitRepoURL \o "/benchmarks/" \o suffix

\* A prefix taken from a clock that is read once, when the server starts.
nowUniqPrefixFrozen(now) == "1970-1-1/0"

\* fmt.Sprintf("%d-%d-%d/%d", now.Year(), now.Month(), now.Day(), now.Unix())
\* for a clock that starts on 1970-1-1 and whose days last DayLen units.
nowUniqPrefix(now) ==
  "1970-1-" \o ToString((now \div DayLen) + 1) \o "/" \o ToString(now)

\* infraClient.Object asked for the results key that goes with the name.
ObjectOfResults(st, name, callOk) ==
  IF callOk /\ (name \o "-results") \in DOMAIN st
  THEN [obj |-> name, err |-> NoErr]
  ELSE [obj |-> "nil",
        err |-> IF (name \o "-results") \in DOMAIN st THEN "storage: request failed"
                ELSE "storage: object doesn't exist"]

\* infraClient.Object: the object, or an error.  callOk is whether the
\* request to the storage service itself went through.
Object(st, name, callOk) ==
  IF callOk /\ name \in DOMAIN st
  THEN [obj |-> name, err |-> NoErr]
  ELSE [obj |-> "nil",
        err |-> IF name \in DOMAIN st THEN "storage: request failed"
                ELSE "storage: object doesn't exist"]

\* infra.ObjectURL
ObjectURL(name) == "https://storage.googleapis.com/" \o gcsBucket \o "/" \o name

\* uploadBenchmarksToGCS that reports an upload it did not commit.
uploadBenchmarksToGCSLost(st, name, bytes, outcome) ==
  IF outcome = "bucket"
  THEN [st |-> st, url |-> "", err |-> "EnsureBucketExists failed"]
  ELSE IF outcome = "upload"
  THEN [st |-> st, url |-> "", err |-> "UploadWithParams failed"]
  ELSE [st |-> st, url |-> ObjectURL(name), err |-> NoErr]

\* uploadBenchmarksToGCS on a bucket that takes a write only for a name it
\* does not hold yet.
uploadBenchmarksToGCSIfAbsent(st, name, bytes, outcome) ==
  IF outcome = "bucket"
  THEN [st |-> st, url |-> "", err |-> "EnsureBucketExists failed"]
  ELSE IF outcome = "upload"
  THEN [st |-> st, url |-> "", err |-> "UploadWithParams failed"]
  ELSE [st |-> st @@ (name :> bytes), url |-> ObjectURL(name), err |-> NoErr]

\* uploadBenchmarksToGCS: [st, url, err].  outcome says which collaborator
\* call fails, if any.
uploadBenchmarksToGCS(st, name, bytes, outcome) ==
  IF outcome = "bucket"
  THEN [st |-> st, url |-> "", err |-> "EnsureBucketExists failed"]
  ELSE IF outcome = "upload"
  THEN [st |-> st, url |-> "", err |-> "UploadWithParams failed"]
  ELSE [st |-> (name :> bytes) @@ st, url |-> ObjectURL(name), err |-> NoErr]

UploadOutcomes == {"ok", "bucket", "upload"}

\* The first-time paths without the `latest` pointer.
firstPathsStampOnly(now) == <<nowUniqPrefix(now)>>

\* paths := []string{"latest", nowUniqPrefix}
firstPaths(now) == <<"latest", nowUniqPrefix(now)>>

\* The uploads table with the "-results" suffix forgotten on the last path.
uploadsNoSuffix(now, afterBlob, changed) ==
  << [path |-> "latest", bytes |-> afterBlob],
     [path |-> nowUniqPrefix(now), bytes |-> afterBlob],
     [path |-> "latest-results", bytes |-> FormatText(changed)],
     [path |-> nowUniqPrefix(now), bytes |-> FormatText(changed)] >>

\* The uploads table with the results before the raw measurements.
uploadsResultsFirst(now, afterBlob, changed) ==
  << [path |-> "latest-results", bytes |-> FormatText(changed)],
     [path |-> nowUniqPrefix(now) \o "-results", bytes |-> FormatText(changed)],
     [path |-> "latest", bytes |-> afterBlob],
     [path |-> nowUniqPrefix(now), bytes |-> afterBlob] >>

\* The uploads table with the two reader functions exchanged on the
\* pointers.
uploadsPointersSwapped(now, afterBlob, changed) ==
  << [path |-> "latest", bytes |-> FormatText(changed)],
     [path |-> nowUniqPrefix(now), bytes |-> afterBlob],
     [path |-> "latest-results", bytes |-> afterBlob],
     [path |-> nowUniqPrefix(now) \o "-results", bytes |-> FormatText(changed)] >>

\* The uploads table of uploadToGCS, flattened in loop order: path and the
\* bytes its reader function yields.
uploads(now, afterBlob, changed) ==
  << [path |-> "latest", bytes |-> afterBlob],
     [path |-> nowUniqPrefix(now), bytes |-> afterBlob],
     [path |-> "latest-results", bytes |-> FormatText(changed)],
     [path |-> nowUniqPrefix(now) \o "-results", bytes |-> FormatText(changed)] >>

\* The error of a failed write on the first-time path.
firstTimeError(path, err) == "Uploading benchmarks first-time: " \o err

\* fmt.Errorf("uploadBenchmarksToGCS: %q: %v", path, err); the quotes of %q
\* are written as apostrophes.
uploadError(path, err) == "uploadBenchmarksToGCS: '" \o path \o "': " \o err

retrieveError(err) == "Retrieving before benchmarks: " \o err

downloadError(err) == "Downloading before benchmarks: " \o err

\* The nil interface value returned beside an error.
NilResult == [kind |-> "nil", URLs |-> <<>>, Benchmarks |-> <<>>, HTMLBenchmarks |-> <<>>]

\* A Result that lost its URLs.
ResultNoURLs(urls, benchmarks, html) ==
  [kind |-> "Result", URLs |-> <<>>, Benchmarks |-> benchmarks, HTMLBenchmarks |-> html]

\* &Result{...}
Result(urls, benchmarks, html) ==
  [kind |-> "Result", URLs |-> urls, Benchmarks |-> benchmarks, HTMLBenchmarks |-> html]

\* The postmark.Email BenchmarkAndEmail composes; the template prints
\* HTMLBenchmarks when it is not empty, then the URLs.
Email(AlertEmails, GitRepoURL, results) ==
  [To |-> Join(AlertEmails, ","),
   Subject |-> "Benchmarks for " \o GitRepoURL,
   HtmlBody |-> [html |-> results.HTMLBenchmarks, urls |-> results.URLs]]

\* The switch without its case for ErrNoChanges.
ResponseGeneric(results, err) ==
  IF err # NoErr THEN [status |-> 400, body |-> err]
  ELSE [status |-> 200, body |-> "json"]

\* The switch that ends handleBenchmarking.
Response(results, err) ==
  IF err = ErrNoChanges THEN [status |-> 200, body |-> "No changes detected!"]
  ELSE IF err # NoErr THEN [status |-> 400, body |-> err]
  ELSE [status |-> 200, body |-> "json"]

----------------------------------------------------------------------------
(* State.                                                                  *)

VARIABLES
  store,    \* the bucket: object name -> bytes
  clock,    \* time.Now().Unix()
  accepted, \* number of requests accepted so far
  inv,      \* per request handler: position and locals of the invocation
  last      \* history: per repository, the invocation that returned last

vars == <<store, clock, accepted, inv, last>>

\* A handler that serves no request.
Idle ==
  [pc |-> "idle", GitRepoURL |-> "", AlertEmails |-> <<>>,
   ctxDone |-> FALSE, cmdErr |-> NoErr, output |-> <<>>, afterBlob |-> <<>>, now |-> 0,
   path |-> "none", before |-> <<>>, tables |-> <<>>, changed |-> <<>>,
   i |-> 0, urls |-> <<>>, results |-> NilResult, err |-> NoErr,
   calls |-> <<>>, written |-> <<>>, store0 |-> <<>>]

NoRun ==
  [outcome |-> "none", afterBlob |-> <<>>, err |-> NoErr, wrote |-> 0,
   ctxDone |-> FALSE, response |-> [status |-> 0, body |-> ""]]

Init ==
  /\ store = <<>>
  /\ clock = 0
  /\ accepted = 0
  /\ inv = [p \in Procs |-> Idle]
  /\ last = [r \in Repos \cup {BlankRepo} |-> NoRun]

\* What the invocation of handler p did, as the caller sees it.
Outcome(v) ==
  IF v.err = ErrNoChanges THEN "no-change"
  ELSE IF v.err # NoErr THEN "failed"
  ELSE IF v.path = "first" THEN "first-time"
  ELSE "changed"

Call(op, name, result) == <<op, name, result>>

\* An error that is recorded while the loop goes on.
FailAndGoOn(v, err, call) ==
  [v EXCEPT !.err = err, !.calls = Append(@, call)]

\* An error after which BenchmarkAndEmail goes on to the email.
FailThenEmail(v, err, call) ==
  [v EXCEPT !.pc = "email", !.results = NilResult, !.err = err,
            !.calls = Append(@, call)]

\* Request.Benchmark returned an error: BenchmarkAndEmail returns nil, err.
Fail(v, err, call) ==
  [v EXCEPT !.pc = "respond", !.results = NilResult, !.err = err,
            !.calls = Append(@, call)]

----------------------------------------------------------------------------
(* Actions.                                                                *)

\* handleBenchmarking up to the call of BenchmarkAndEmail.  The server
\* starts a handler per request; handlers are numbered, and a request takes
\* the free handler with the least number.
Accept(p, GitRepoURL, AlertEmails) ==
  /\ inv[p].pc = "idle"
  /\ \A q \in Procs : q < p => inv[q].pc # "idle"
  /\ accepted < MaxRuns
  /\ accepted' = accepted + 1
  /\ inv' = [inv EXCEPT ![p] =
               [Idle EXCEPT !.pc = "benchmark", !.GitRepoURL = GitRepoURL,
                            !.AlertEmails = AlertEmails, !.store0 = store]]
  /\ UNCHANGED <<store, clock, last>>

\* Accept while no other invocation is running.
AcceptSerial(p, GitRepoURL, AlertEmails) ==
  /\ \A q \in Procs : inv[q].pc = "idle"
  /\ Accept(p, GitRepoURL, AlertEmails)

\* runGoBenchmarks up to the return of cmd.Output(), for a runner that
\* exits on its own while the context of the request is live.
RunCommand(p, cmdOk, output) ==
  /\ inv[p].pc = "benchmark"
  /\ ~inv[p].ctxDone
  /\ inv' = [inv EXCEPT ![p] =
               [@ EXCEPT !.pc = "filter", !.output = output,
                         !.cmdErr = IF cmdOk THEN NoErr ELSE ErrExec,
                         !.calls = Append(@, Call("cmd.Output", inv[p].GitRepoURL,
                                                  IF cmdOk THEN "ok" ELSE "err"))]]
  /\ UNCHANGED <<store, clock, accepted, last>>

\* The context of the request is cancelled (the client went away) while
\* the runner executes.  exec.CommandContext is the only reader of the
\* context in the pipeline; the tracing spans aside, no later call looks
\* at it.
Cancel(p) ==
  /\ inv[p].pc = "benchmark"
  /\ ~inv[p].ctxDone
  /\ inv' = [inv EXCEPT ![p] = [@ EXCEPT !.ctxDone = TRUE]]
  /\ UNCHANGED <<store, clock, accepted, last>>

\* runGoBenchmarks up to the return of cmd.Output(), for a runner that is
\* killed: by exec.CommandContext when the context is done, or by a
\* signal from elsewhere (the kernel out of memory, an operator).  Either
\* way cmd.Output() returns the *exec.ExitError of a killed process.
RunCommandKilled(p) ==
  /\ inv[p].pc = "benchmark"
  /\ inv' = [inv EXCEPT ![p] =
               [@ EXCEPT !.pc = "filter", !.output = <<>>, !.cmdErr = ErrKilled,
                         !.calls = Append(@, Call("cmd.Output", inv[p].GitRepoURL,
                                                  "killed"))]]
  /\ UNCHANGED <<store, clock, accepted, last>>

\* The rest of runGoBenchmarks, its return through Request.Benchmark, and
\* the head of uploadToGCS (now := time.Now()).  The output is garbage once
\* the blob is built.
Benchmark(p) ==
  /\ inv[p].pc = "filter"
  /\ LET v == inv[p]
         r == runGoBenchmarks(v.cmdErr, v.output)
     IN  inv' = [inv EXCEPT ![p] =
                   IF r.err # NoErr
                   THEN [v EXCEPT !.pc = "respond", !.results = NilResult, !.err = r.err]
                   ELSE [v EXCEPT !.pc = "exists", !.afterBlob = r.blob,
                                  !.now = clock, !.output = <<>>]]
  /\ UNCHANGED <<store, clock, accepted, last>>

\* uploadToGCS step 1: infraClient.Object and the branch on its result.
CheckExists(p, callOk) ==
  /\ inv[p].pc = "exists"
  /\ LET v == inv[p]
         name == inBenchmarksDir(v.GitRepoURL, "latest")
         r == Object(store, name, callOk)
         call == Call("Object", name,
                      IF ~callOk THEN "failed"
                      ELSE IF r.obj = "nil" THEN "absent" ELSE "ok")
     IN  inv' = [inv EXCEPT ![p] =
                   IF r.err # NoErr \/ r.obj = "nil"
                   THEN [v EXCEPT !.pc = "first", !.path = "first", !.i = 1,
                                  !.calls = Append(@, call)]
                   ELSE [v EXCEPT !.pc = "download", !.path = "compare",
                                  !.calls = Append(@, call)]]
  /\ UNCHANGED <<store, clock, accepted, last>>

\* One iteration of the first-time upload loop; after the last one
\* Benchmark returns &Result{URLs: results, Benchmarks: string(afterBlob)}.
UploadFirst(p, outcome) ==
  /\ inv[p].pc = "first"
  /\ LET v == inv[p]
         paths == firstPaths(v.now)
         path == paths[v.i]
         name == inBenchmarksDir(v.GitRepoURL, path)
         r == uploadBenchmarksToGCS(store, name, v.afterBlob, outcome)
         call == Call("Upload", name, outcome)
         urls == (path :> r.url) @@ v.urls
     IN  /\ store' = r.st
         /\ inv' = [inv EXCEPT ![p] =
                      IF r.err # NoErr
                      THEN Fail(v, firstTimeError(path, r.err), call)
                      ELSE [v EXCEPT
                              !.urls = urls,
                              !.calls = Append(@, call),
                              !.written = Append(@, [name |-> name, bytes |-> v.afterBlob]),
                              !.i = @ + 1,
                              !.pc = IF v.i = Len(paths) THEN "email" ELSE "first",
                              !.results = IF v.i = Len(paths)
                                          THEN Result(urls, v.afterBlob, <<>>)
                                          ELSE @]]
  /\ UNCHANGED <<clock, accepted, last>>

\* uploadToGCS steps 2 and 3: download `latest`, compare, filter, and
\* return ErrNoChanges when nothing is left.
Download(p, outcome) ==
  /\ inv[p].pc = "download"
  /\ LET v == inv[p]
         name == inBenchmarksDir(v.GitRepoURL, "latest")
         call == Call("Download", name, outcome)
         before == store[name]
         tables == Tables(before, v.afterBlob)
         changed == changedTables(tables)
         w == [v EXCEPT !.before = before, !.tables = tables, !.changed = changed]
     IN  inv' = [inv EXCEPT ![p] =
                   IF outcome = "retrieve"
                   THEN Fail(v, retrieveError("request failed"), call)
                   ELSE IF outcome = "copy"
                   THEN Fail(v, downloadError("unexpected EOF"), call)
                   ELSE IF Len(changed) = 0
                   THEN Fail(w, ErrNoChanges, call)
                   ELSE [w EXCEPT !.pc = "upload", !.i = 1,
                                  !.calls = Append(@, call)]]
  /\ UNCHANGED <<store, clock, accepted, last>>

DownloadOutcomes == {"ok", "retrieve", "copy"}

\* One iteration of the upload loops of step 4; after the last one
\* uploadToGCS returns the Result with both renderings.
UploadChanged(p, outcome) ==
  /\ inv[p].pc = "upload"
  /\ LET v == inv[p]
         ups == uploads(v.now, v.afterBlob, v.changed)
         up == ups[v.i]
         name == inBenchmarksDir(v.GitRepoURL, up.path)
         r == uploadBenchmarksToGCS(store, name, up.bytes, outcome)
         call == Call("Upload", name, outcome)
         urls == (up.path :> r.url) @@ v.urls
     IN  /\ store' = r.st
         /\ inv' = [inv EXCEPT ![p] =
                      IF r.err # NoErr
                      THEN Fail(v, uploadError(up.path, r.err), call)
                      ELSE [v EXCEPT
                              !.urls = urls,
                              !.calls = Append(@, call),
                              !.written = Append(@, [name |-> name, bytes |-> up.bytes]),
                              !.i = @ + 1,
                              !.pc = IF v.i = Len(ups) THEN "email" ELSE "upload",
                              !.results = IF v.i = Len(ups)
                                          THEN Result(urls, FormatText(v.changed),
                                                      FormatHTML(v.changed))
                                          ELSE @]]
  /\ UNCHANGED <<clock, accepted, last>>

\* BenchmarkAndEmail after Benchmark succeeded: compose and send the email.
SendEmail(p, sendOk) ==
  /\ inv[p].pc = "email"
  /\ LET v == inv[p]
         email == Email(v.AlertEmails, v.GitRepoURL, v.results)
     IN  inv' = [inv EXCEPT ![p] =
                   [v EXCEPT !.pc = "respond",
                             !.err = IF sendOk THEN NoErr ELSE "postmark: send failed",
                             !.calls = Append(@, Call("SendEmail", email.To,
                                                      IF sendOk THEN "ok" ELSE "err"))]]
  /\ UNCHANGED <<store, clock, accepted, last>>

\* handleBenchmarking writes the response; the handler is free again.
Respond(p) ==
  /\ inv[p].pc = "respond"
  /\ LET v == inv[p]
     IN  last' = [last EXCEPT ![v.GitRepoURL] =
                    [outcome |-> Outcome(v), afterBlob |-> v.afterBlob,
                     err |-> v.err, wrote |-> Len(v.written),
                     ctxDone |-> v.ctxDone,
                     response |-> Response(v.results, v.err)]]
  /\ inv' = [inv EXCEPT ![p] = Idle]
  /\ UNCHANGED <<store, clock, accepted>>

\* The wall clock advances.
Tick ==
  /\ clock < MaxTime
  /\ clock' = clock + 1
  /\ UNCHANGED <<store, accepted, inv, last>>

Step(p) ==
  \/ \E cmdOk \in BOOLEAN, output \in Outputs :
       /\ (~cmdOk => output = <<>>)
       /\ RunCommand(p, cmdOk, output)
  \/ Benchmark(p)
  \/ \E callOk \in BOOLEAN : CheckExists(p, callOk)
  \/ \E outcome \in UploadOutcomes : UploadFirst(p, outcome)
  \/ \E outcome \in DownloadOutcomes : Download(p, outcome)
  \/ \E outcome \in UploadOutcomes : UploadChanged(p, outcome)
  \/ \E sendOk \in BOOLEAN : SendEmail(p, sendOk)
  \/ Respond(p)

\* Requests for one repository, served one at a time.
Next ==
  \/ \E p \in Procs, e \in RecipientLists : AcceptSerial(p, "A", e)
  \/ \E p \in Procs : Step(p)
  \/ Tick

Spec == Init /\ [][Next]_vars

\* The runner's outputs that are measurement suites.
Suites ==
  {Join(ls, NL) : ls \in {<<LineOk, LineA1, LineB1, <<>>>>, <<LineA3, LineOk, LineB1>>}}

\* Step with the runner, when it exits with status 0, printing a suite.
StepSuites(p) ==
  \/ \E output \in Suites : RunCommand(p, TRUE, output)
  \/ RunCommand(p, FALSE, <<>>)
  \/ Benchmark(p)
  \/ \E callOk \in BOOLEAN : CheckExists(p, callOk)
  \/ \E outcome \in UploadOutcomes : UploadFirst(p, outcome)
  \/ \E outcome \in DownloadOutcomes : Download(p, outcome)
  \/ \E outcome \in UploadOutcomes : UploadChanged(p, outcome)
  \/ \E sendOk \in BOOLEAN : SendEmail(p, sendOk)
  \/ Respond(p)

\* Accept among the first MaxRequests requests.
AcceptSome(p, GitRepoURL, AlertEmails) ==
  /\ accepted < MaxRequests
  /\ Accept(p, GitRepoURL, AlertEmails)

\* Requests for one repository, each served as it arrives: net/http runs
\* every request in a goroutine of its own.
NextSameRepo ==
  \/ \E p \in Procs, e \in RecipientLists : AcceptSome(p, "A", e)
  \/ \E p \in Procs : StepSuites(p)
  \/ Tick

SameRepoSpec == Init /\ [][NextSameRepo]_vars

\* Requests for two repositories, those for one repository one at a time.
NextTwoRepos ==
  \/ \E p \in Procs, r \in Repos, e \in RecipientLists :
       /\ \A q \in Procs : inv[q].pc # "idle" => inv[q].GitRepoURL # r
       /\ AcceptSome(p, r, e)
  \/ \E p \in Procs : StepSuites(p)
  \/ Tick

TwoReposSpec == Init /\ [][NextTwoRepos]_vars

\* Requests as the JSON decoder admits them, with or without a repository
\* and recipients, one at a time; the client may go away and the runner
\* may be killed.
NextRequests ==
  \/ \E p \in Procs, r \in {"A", BlankRepo},
        e \in RecipientLists \cup {NoRecipients} :
       /\ \A q \in Procs : inv[q].pc = "idle"
       /\ AcceptSome(p, r, e)
  \/ \E p \in Procs : StepSuites(p) \/ Cancel(p) \/ RunCommandKilled(p)
  \/ Tick

RequestsSpec == Init /\ [][NextRequests]_vars

----------------------------------------------------------------------------
(* Vocabulary of the properties.                                           *)

Running == {p \in Procs : inv[p].pc # "idle"}

\* BenchmarkAndEmail has returned to handleBenchmarking.
Returned(v) == v.pc = "respond"

LatestName(v) == v.GitRepoURL \o "/benchmarks/latest"

StampName(v) == v.GitRepoURL \o "/benchmarks/" \o nowUniqPrefix(v.now)

LatestResultsName(v) == v.GitRepoURL \o "/benchmarks/latest-results"

StampResultsName(v) == StampName(v) \o "-results"

CallsOf(v, op) == SelectSeq(v.calls, LAMBDA c : c[1] = op)

Made(v, op) == CallsOf(v, op) # <<>>

NoWriteFailed(v) == \A i \in 1..Len(v.calls) :
                      v.calls[i][1] = "Upload" => v.calls[i][3] = "ok"

\* Every key of the bucket other than those in names holds what it held
\* when the invocation began, and no key disappeared.
OnlyTouched(v, names) ==
  /\ DOMAIN v.store0 \subseteq DOMAIN store
  /\ DOMAIN store \subseteq DOMAIN v.store0 \cup names
  /\ \A k \in DOMAIN v.store0 \ names : store[k] = v.store0[k]

\* A line that starts with "Benchmark" after leading blanks, stated on the
\* characters of the line.
StartsWithBenchmark(line) ==
  \E k \in 0..Len(line) :
    /\ \A j \in 1..k : IsSpace(line[j])
    /\ Len(line) >= k + Len(BenchmarkPrefix)
    /\ \A j \in 1..Len(BenchmarkPrefix) : line[k + j] = BenchmarkPrefix[j]

NoBenchmarkLine(output) ==
  LET lines == Split(output, NL)
  IN  \A i \in 1..Len(lines) : ~StartsWithBenchmark(lines[i])

----------------------------------------------------------------------------
(* C1: an output of the runner without any line that starts with           *)
(* "Benchmark" makes the invocation return ErrNoBenchmarks with a nil      *)
(* result, before infraClient.Object is asked and without any write: the   *)
(* only collaborator call of the invocation is the runner, and the bucket  *)
(* is as it was.                                                           *)
C1_NoBenchmarksNoWrites ==
  [][\A p \in Procs :
       (/\ inv[p].pc = "filter"
        /\ inv[p].cmdErr = NoErr
        /\ NoBenchmarkLine(inv[p].output)
        /\ inv'[p] # inv[p])
       => (/\ Returned(inv'[p])
           /\ inv'[p].err = ErrNoBenchmarks
           /\ inv'[p].results = NilResult
           /\ ~Made(inv'[p], "Object")
           /\ ~Made(inv'[p], "Upload")
           /\ Len(inv'[p].calls) = 1
           /\ inv'[p].written = <<>>
           /\ store' = inv[p].store0)]_vars

C1_Witness ==
  \E p \in Procs :
    /\ Returned(inv[p])
    /\ inv[p].err = ErrNoBenchmarks
    /\ inv[p].output # <<>>
    /\ inv[p].store0 # <<>>

----------------------------------------------------------------------------
(* More vocabulary.                                                        *)

Stored(name, bytes) == [name |-> name, bytes |-> bytes]

Range(seq) == {seq[i] : i \in 1..Len(seq)}

\* Every snapshot the invocation wrote holds the bytes that were written.
WrittenStands(v) ==
  \A i \in 1..Len(v.written) :
    /\ v.written[i].name \in DOMAIN store
    /\ store[v.written[i].name] = v.written[i].bytes

WrittenNames(v) == {v.written[i].name : i \in 1..Len(v.written)}

DownloadedOk(v) == \E i \in 1..Len(v.calls) : v.calls[i] = <<"Download", LatestName(v), "ok">>

AllUnchanged(tables) ==
  \A i \in 1..Len(tables) :
    \A j \in 1..Len(tables[i].Rows) : tables[i].Rows[j].Change = 0

\* The baseline the invocation compares against, when one is stored.
Baseline(v) == v.store0[LatestName(v)]

----------------------------------------------------------------------------
(* C2: when the `latest` key of the repository is absent and the runner    *)
(* gave a non-empty blob, an invocation none of whose writes failed has    *)
(* written exactly `latest` and the timestamped key, in that order, both   *)
(* with the bytes of afterBlob; it made no download and no comparison,     *)
(* touched no other key, and returns a Result whose Benchmarks is the blob *)
(* and whose HTMLBenchmarks is empty.                                      *)
C2_FirstTimeTwoSnapshots ==
  \A p \in Procs :
    LET v == inv[p]
    IN  (/\ v.pc \in {"email", "respond"}
         /\ v.afterBlob # <<>>
         /\ LatestName(v) \notin DOMAIN v.store0
         /\ NoWriteFailed(v))
        => (/\ v.path = "first"
            /\ ~Made(v, "Download")
            /\ v.tables = <<>>
            /\ v.written = <<Stored(LatestName(v), v.afterBlob),
                             Stored(StampName(v), v.afterBlob)>>
            /\ WrittenStands(v)
            /\ OnlyTouched(v, {LatestName(v), StampName(v)})
            /\ v.results = Result(v.urls, v.afterBlob, <<>>)
            /\ DOMAIN v.urls = {"latest", nowUniqPrefix(v.now)})

C2_Witness ==
  \E p \in Procs :
    /\ Returned(inv[p])
    /\ inv[p].err = NoErr
    /\ inv[p].path = "first"
    /\ LatestName(inv[p]) \notin DOMAIN inv[p].store0
    /\ Len(inv[p].written) = 2

(* C3: when the baseline was downloaded and no row of the Comparator's     *)
(* tables for (baseline, afterBlob) has a change other than 0, the         *)
(* invocation returns ErrNoChanges with a nil result, makes no upload and  *)
(* sends no email, and the bucket is exactly what it was when the          *)
(* invocation began -- `latest` included, run after run.                   *)
C3_NoChangeWritesNothing ==
  \A p \in Procs :
    LET v == inv[p]
    IN  (/\ v.path = "compare"
         /\ DownloadedOk(v)
         /\ AllUnchanged(Tables(Baseline(v), v.afterBlob)))
        => (/\ Returned(v)
            /\ v.err = ErrNoChanges
            /\ v.results = NilResult
            /\ v.written = <<>>
            /\ ~Made(v, "Upload")
            /\ ~Made(v, "SendEmail")
            /\ store = v.store0)

\* A second no-change run in a row, on measurements that differ from the
\* baseline they leave in place.
C3_Witness ==
  \E p \in Procs :
    /\ Returned(inv[p])
    /\ inv[p].err = ErrNoChanges
    /\ last[inv[p].GitRepoURL].outcome = "no-change"
    /\ store[LatestName(inv[p])] # inv[p].afterBlob
    /\ Tables(Baseline(inv[p]), inv[p].afterBlob) # <<>>

(* C4: when the baseline was downloaded and some row has a change other    *)
(* than 0, an invocation none of whose writes failed has written exactly   *)
(* four snapshots: afterBlob under `latest` and the timestamped key, the   *)
(* plain-text report under `latest-results` and the timestamped "-results" *)
(* key; the four names differ and no other key is touched.                 *)
C4_ChangedFourSnapshots ==
  \A p \in Procs :
    LET v == inv[p]
        report == FormatText(v.changed)
    IN  (/\ v.pc \in {"email", "respond"}
         /\ v.path = "compare"
         /\ DownloadedOk(v)
         /\ ~AllUnchanged(Tables(Baseline(v), v.afterBlob))
         /\ NoWriteFailed(v))
        => (/\ v.written = <<Stored(LatestName(v), v.afterBlob),
                             Stored(StampName(v), v.afterBlob),
                             Stored(LatestResultsName(v), report),
                             Stored(StampResultsName(v), report)>>
            /\ Cardinality(WrittenNames(v)) = 4
            /\ report # <<>>
            /\ v.results.Benchmarks = report
            /\ WrittenStands(v)
            /\ OnlyTouched(v, WrittenNames(v)))

C4_Witness ==
  \E p \in Procs :
    /\ Returned(inv[p])
    /\ inv[p].err = NoErr
    /\ inv[p].path = "compare"
    /\ Len(inv[p].written) = 4
    /\ StampName(inv[p]) \in DOMAIN inv[p].store0

RECURSIVE Flatten(_)
Flatten(seqs) == IF seqs = <<>> THEN <<>> ELSE Head(seqs) \o Flatten(Tail(seqs))

\* All rows of a table list, in order.
RowsOf(tables) == Flatten([i \in 1..Len(tables) |-> tables[i].Rows])

\* The rows of a table list whose change is not 0, in order.
NonZeroRows(tables) ==
  Flatten([i \in 1..Len(tables) |->
             SelectSeq(tables[i].Rows, LAMBDA r : r.Change # 0)])

\* The lines of a plain-text report that are rows, not headers.
RowLines(text) ==
  SelectSeq(Split(text, NL),
            LAMBDA l : l # <<>> /\ ~HasPrefix(l, <<"n", "a", "m", "e", " ">>))

\* The number of rows of a rich-text report.
HTMLRowCount(html) == Len(SelectSeq(html, LAMBDA t : t = "<tr>"))

(* C5: the list `changed` that uploadToGCS renders has exactly the rows of *)
(* the Comparator's tables whose Change is not 0, in the Comparator's      *)
(* order, and no table without rows; the plain-text report that is         *)
(* returned and stored under both results keys has one line per such row   *)
(* and no other row line, and the rich-text report has as many rows.       *)
C5_ReportHasExactlyChangedRows ==
  \A p \in Procs :
    LET v == inv[p]
        kept == NonZeroRows(Tables(Baseline(v), v.afterBlob))
    IN  /\ (v.path = "compare" /\ DownloadedOk(v))
           => (/\ RowsOf(v.changed) = kept
               /\ \A i \in 1..Len(v.changed) : v.changed[i].Rows # <<>>)
        /\ (v.path = "compare" /\ v.results.kind = "Result")
           => (/\ RowLines(v.results.Benchmarks)
                    = [i \in 1..Len(kept) |-> FormatRow(kept[i])]
               /\ HTMLRowCount(v.results.HTMLBenchmarks) = Len(kept)
               /\ store[LatestResultsName(v)] = v.results.Benchmarks
               /\ store[StampResultsName(v)] = v.results.Benchmarks)

\* A report made from tables that had changed and unchanged rows.
C5_Witness ==
  \E p \in Procs :
    LET v == inv[p]
        cmp == Tables(Baseline(v), v.afterBlob)
    IN  /\ v.path = "compare"
        /\ v.results.kind = "Result"
        /\ Len(NonZeroRows(cmp)) >= 2
        /\ Len(RowsOf(cmp)) > Len(NonZeroRows(cmp))
        /\ \E i \in 1..Len(cmp) :
             /\ \E j \in 1..Len(cmp[i].Rows) : cmp[i].Rows[j].Change = 0
             /\ \E j \in 1..Len(cmp[i].Rows) : cmp[i].Rows[j].Change # 0

\* No collaborator call of the invocation failed.
NoCallFailed(v) ==
  \A i \in 1..Len(v.calls) : v.calls[i][3] \in {"ok", "absent"}

UploadFailed(v) ==
  \E i \in 1..Len(v.calls) : v.calls[i][1] = "Upload" /\ v.calls[i][3] # "ok"

OkUploadNames(v) ==
  LET ok == SelectSeq(v.calls, LAMBDA c : c[1] = "Upload" /\ c[3] = "ok")
  IN  [i \in 1..Len(ok) |-> ok[i][2]]

(* C6: an invocation that follows, for the same repository and with no     *)
(* other invocation in between, one that returned a first-time result, a   *)
(* changed result or ErrNoChanges, that measured the same afterBlob, and   *)
(* none of whose collaborator calls failed, returns ErrNoChanges and       *)
(* leaves the bucket as it found it.                                       *)
C6_SecondRunNoChange ==
  \A p \in Procs :
    LET v == inv[p]
        prev == last[v.GitRepoURL]
    IN  (/\ Returned(v)
         /\ v.afterBlob # <<>>
         /\ prev.outcome \in {"first-time", "changed", "no-change"}
         /\ prev.afterBlob = v.afterBlob
         /\ NoCallFailed(v))
        => (/\ v.err = ErrNoChanges
            /\ v.results = NilResult
            /\ v.written = <<>>
            /\ store = v.store0)

C6_WitnessAfterFirstTime ==
  \E p \in Procs :
    /\ Returned(inv[p])
    /\ inv[p].err = ErrNoChanges
    /\ last[inv[p].GitRepoURL].outcome = "first-time"
    /\ last[inv[p].GitRepoURL].afterBlob = inv[p].afterBlob

C6_WitnessAfterChanged ==
  \E p \in Procs :
    /\ Returned(inv[p])
    /\ inv[p].err = ErrNoChanges
    /\ last[inv[p].GitRepoURL].outcome = "changed"
    /\ last[inv[p].GitRepoURL].afterBlob = inv[p].afterBlob

\* The second run repeats a run that changed the baseline; runs that
\* repeat a first-time run and a no-change run are reached as well.
C6_Witness == C6_WitnessAfterChanged

(* C7, as claimed: while `latest` is stored for the repository an          *)
(* invocation never takes the first-time branch, and an invocation that    *)
(* measured a blob but did not get the stored baseline returns a baseline  *)
(* read error and writes nothing.                                          *)
C7_BaselineNeverBypassed ==
  \A p \in Procs :
    LET v == inv[p]
    IN  (LatestName(v) \in DOMAIN v.store0)
        => (/\ v.path # "first"
            /\ (Returned(v) /\ v.afterBlob # <<>> /\ ~DownloadedOk(v))
               => (/\ v.err \in {retrieveError("request failed"),
                                 downloadError("unexpected EOF")}
                   /\ v.written = <<>>))

(* C8: once an upload of the invocation has failed, the invocation has     *)
(* returned an error with a nil result; the failed upload is its last      *)
(* collaborator call (no retry, no further write, no email), and every     *)
(* snapshot uploaded before it is in the bucket with the bytes written,    *)
(* all other keys being as they were.                                      *)
C8_WriteFailureStopsKeepsWrites ==
  \A p \in Procs :
    LET v == inv[p]
        n == Len(v.calls)
    IN  UploadFailed(v)
        => (/\ Returned(v)
            /\ v.err \notin {NoErr, ErrNoChanges}
            /\ v.results = NilResult
            /\ Response(v.results, v.err) = [status |-> 400, body |-> v.err]
            /\ v.calls[n][1] = "Upload" /\ v.calls[n][3] # "ok"
            /\ \A i \in 1..(n - 1) : v.calls[i][3] \in {"ok", "absent", "failed"}
                                     /\ (v.calls[i][1] = "Upload" => v.calls[i][3] = "ok")
            /\ ~Made(v, "SendEmail")
            /\ OkUploadNames(v) = [i \in 1..Len(v.written) |-> v.written[i].name]
            /\ WrittenStands(v)
            /\ OnlyTouched(v, WrittenNames(v)))

\* A write failed after two snapshots had been written.
C8_Witness ==
  \E p \in Procs :
    /\ UploadFailed(inv[p])
    /\ inv[p].path = "compare"
    /\ Len(inv[p].written) = 2

(* C9, as claimed: the error of a failed write tells whether the           *)
(* invocation wrote anything: two invocations that return the same write   *)
(* error either both wrote nothing or both wrote some snapshot.            *)
C9_ErrorTellsWhetherWritten ==
  \A p \in Procs :
    LET v == inv[p]
        prev == last[v.GitRepoURL]
    IN  (Returned(v) /\ UploadFailed(v) /\ prev.err = v.err)
        => ((prev.wrote = 0) <=> (v.written = <<>>))

(* C10: the email is sent after all uploads of the invocation, two on the  *)
(* first-time path and four on the changed path, have succeeded, and it is *)
(* the last collaborator call; when the delivery fails the caller gets the *)
(* result with the delivery error, the client a 400 response, and every    *)
(* snapshot of the invocation is in the bucket as written.                 *)
C10_EmailAfterAllWrites ==
  \A p \in Procs :
    LET v == inv[p]
        n == Len(v.calls)
    IN  Made(v, "SendEmail")
        => (/\ Returned(v)
            /\ v.calls[n][1] = "SendEmail"
            /\ Len(CallsOf(v, "SendEmail")) = 1
            /\ NoWriteFailed(v)
            /\ Len(CallsOf(v, "Upload")) = (IF v.path = "first" THEN 2 ELSE 4)
            /\ Len(v.written) = Len(CallsOf(v, "Upload"))
            /\ v.results.kind = "Result"
            /\ WrittenStands(v)
            /\ OnlyTouched(v, WrittenNames(v))
            /\ (v.calls[n][3] # "ok")
               => (/\ v.err = "postmark: send failed"
                   /\ Response(v.results, v.err) = [status |-> 400, body |-> v.err]))

\* The delivery failed after the four snapshots of a changed run.
C10_Witness ==
  \E p \in Procs :
    /\ Returned(inv[p])
    /\ Made(inv[p], "SendEmail")
    /\ inv[p].err = "postmark: send failed"
    /\ Len(inv[p].written) = 4

----------------------------------------------------------------------------
(* Overlapping invocations.                                                *)

\* infraClient.Object told the invocation that `latest` is not stored.
ReadAbsent(v) ==
  \E i \in 1..Len(v.calls) : v.calls[i] = <<"Object", LatestName(v), "absent">>

\* Two invocations for one repository branched on the same reading of
\* `latest`: both found it absent, or both downloaded the same bytes.
SameReading(v, w) ==
  /\ v.GitRepoURL = w.GitRepoURL
  /\ \/ ReadAbsent(v) /\ ReadAbsent(w)
     \/ DownloadedOk(v) /\ DownloadedOk(w) /\ v.before = w.before

WroteLatest(v) == LatestName(v) \in WrittenNames(v)

(* C11: nothing orders two overlapping invocations for one repository.     *)
(* When handler q has written `latest` after a reading of it that handler  *)
(* p shares (both found it absent, or both downloaded the same baseline),  *)
(* p's own write of `latest` still goes through: it replaces q's bytes     *)
(* with p's afterBlob, though p compared against the shared reading and    *)
(* not against q's measurements, and q against p's neither.                *)
C11_LostUpdate ==
  [][\A p, q \in Procs :
       (/\ p # q
        /\ SameReading(inv[p], inv[q])
        /\ WroteLatest(inv[q])
        /\ ~WroteLatest(inv[p])
        /\ WroteLatest(inv'[p]))
       => (/\ store[LatestName(inv[q])] = inv[q].afterBlob
           /\ store'[LatestName(inv[p])] = inv[p].afterBlob
           /\ inv[p].before # inv[q].afterBlob
           /\ inv[q].before # inv[p].afterBlob
           /\ inv'[p].err = NoErr)]_vars

\* Both invocations found `latest` absent and wrote it; the first to write
\* has returned its result without error, and `latest` holds the other's
\* measurements, which differ.
C11_Witness ==
  \E p, q \in Procs :
    /\ p # q
    /\ SameReading(inv[p], inv[q])
    /\ WroteLatest(inv[p]) /\ WroteLatest(inv[q])
    /\ inv[p].afterBlob # inv[q].afterBlob
    /\ store[LatestName(inv[p])] = inv[p].afterBlob
    /\ Returned(inv[q]) /\ inv[q].err = NoErr
    /\ inv[q].results.Benchmarks = inv[q].afterBlob

\* The variant names there are while the clock is within its bound.
Variants ==
  {"latest", "latest-results"}
    \cup {nowUniqPrefix(t) : t \in 0..MaxTime}
    \cup {nowUniqPrefix(t) \o "-results" : t \in 0..MaxTime}

\* The keys of a repository.
KeysOf(repo) == {repo \o "/benchmarks/" \o variant : variant \in Variants}

\* The storage calls of the invocation name keys of its repository only.
StorageCallsWithin(v, keys) ==
  \A i \in 1..Len(v.calls) :
    v.calls[i][1] \in {"Object", "Download", "Upload"} => v.calls[i][2] \in keys

\* The keys in `keys` are what the invocation alone makes of them: a key
\* it wrote holds the bytes it wrote, any other is as when it began.
AsIfAlone(v, keys) ==
  \A k \in keys :
    IF k \in WrittenNames(v)
    THEN k \in DOMAIN store /\ Stored(k, store[k]) \in Range(v.written)
    ELSE /\ (k \in DOMAIN store) <=> (k \in DOMAIN v.store0)
         /\ (k \in DOMAIN store) => store[k] = v.store0[k]

(* C12: an invocation for a repository, with invocations for the other     *)
(* repository interleaved in any way, reads and writes keys                *)
(* <repository>/benchmarks/<variant> only; what it reads of `latest` is    *)
(* what the bucket held when it began, its branch and its list of changed  *)
(* tables follow from that and from its own measurements, and the keys of  *)
(* its repository are at every moment what its own writes make of them.    *)
C12_OtherRepositoryNoEffect ==
  \A p \in Procs :
    LET v == inv[p]
        keys == KeysOf(v.GitRepoURL)
    IN  (v.pc # "idle")
        => (/\ StorageCallsWithin(v, keys)
            /\ WrittenNames(v) \subseteq keys
            /\ AsIfAlone(v, keys)
            /\ ReadAbsent(v) => LatestName(v) \notin DOMAIN v.store0
            /\ (v.path = "compare") => LatestName(v) \in DOMAIN v.store0
            /\ DownloadedOk(v)
                 => (/\ v.before = Baseline(v)
                     /\ v.changed = changedTables(Tables(Baseline(v), v.afterBlob))
                     /\ (v.changed = <<>>) <=> (v.err = ErrNoChanges)))

\* Two invocations for different repositories that overlapped: each wrote
\* `latest` of its repository after the other had begun, and one of them
\* has returned a result.
C12_Witness ==
  \E p, q \in Procs :
    /\ inv[p].GitRepoURL = "A" /\ inv[q].GitRepoURL = "B"
    /\ WroteLatest(inv[p]) /\ LatestName(inv[p]) \notin DOMAIN inv[q].store0
    /\ WroteLatest(inv[q]) /\ LatestName(inv[q]) \notin DOMAIN inv[p].store0
    /\ Returned(inv[p]) /\ inv[p].err = NoErr
    /\ inv[q].written # <<>> /\ inv[q].pc \in {"first", "upload"}

----------------------------------------------------------------------------
(* Cancelled and incomplete requests.                                      *)

\* The invocation ended in runGoBenchmarks: the runner failed or printed
\* no measurement.
MeasurementFailure(run) == run.outcome = "failed" /\ run.afterBlob = <<>>

(* C13, as claimed: an invocation whose context was cancelled while the    *)
(* runner executed returns an error, has written nothing, and its error    *)
(* and its response differ from those of an earlier invocation that ended  *)
(* in a measurement failure without being cancelled.                       *)
C13_CancellationDistinct ==
  \A p \in Procs :
    LET v == inv[p]
        prev == last[v.GitRepoURL]
    IN  (Returned(v) /\ v.ctxDone)
        => (/\ v.err \notin {NoErr, ErrNoChanges}
            /\ v.written = <<>>
            /\ ~Made(v, "Upload")
            /\ (MeasurementFailure(prev) /\ ~prev.ctxDone)
               => (/\ prev.err # v.err
                   /\ prev.response # Response(v.results, v.err)))

(* C14, as claimed: for a request without a repository or without          *)
(* recipients the runner is not started, nothing is uploaded and no email  *)
(* is sent.                                                                *)
C14_IncompleteRequestRejected ==
  \A p \in Procs :
    LET v == inv[p]
    IN  (v.pc # "idle" /\ (v.GitRepoURL = BlankRepo \/ v.AlertEmails = NoRecipients))
        => (/\ ~Made(v, "cmd.Output")
            /\ ~Made(v, "Upload")
            /\ ~Made(v, "SendEmail")
            /\ v.written = <<>>)

----------------------------------------------------------------------------
(* Notification, the bucket over time, order of the writes.                *)

\* All uploads of the path the invocation took were made and succeeded.
AllWritesSucceeded(v) ==
  \/ v.path = "first" /\ Len(v.written) = 2 /\ NoWriteFailed(v)
  \/ v.path = "compare" /\ Len(v.written) = 4 /\ NoWriteFailed(v)

(* C15: an invocation that has returned called SendEmail if and only if    *)
(* it took the first-time path or the changed path and all its uploads     *)
(* succeeded; an invocation whose comparison left no changed table sent    *)
(* no email, and handleBenchmarking answers it with status 200 and the     *)
(* body "No changes detected!".                                            *)
C15_EmailIffPromoted ==
  \A p \in Procs :
    LET v == inv[p]
    IN  Returned(v)
        => (/\ Made(v, "SendEmail") <=> AllWritesSucceeded(v)
            /\ (DownloadedOk(v) /\ AllUnchanged(Tables(Baseline(v), v.afterBlob)))
               => (/\ ~Made(v, "SendEmail")
                   /\ Response(v.results, v.err)
                        = [status |-> 200, body |-> "No changes detected!"]))

\* A run without changes after a run that sent its email.
C15_Witness ==
  \E p \in Procs :
    /\ Returned(inv[p])
    /\ DownloadedOk(inv[p])
    /\ inv[p].changed = <<>>
    /\ ~Made(inv[p], "SendEmail")
    /\ last[inv[p].GitRepoURL].response.body = "json"

\* The timestamped keys of a repository for the time token t.
TokenKeys(repo, t) ==
  LET stamp == repo \o "/benchmarks/1970-1-" \o ToString((t \div DayLen) + 1)
                    \o "/" \o ToString(t)
  IN  {stamp, stamp \o "-results"}

PointerKeys(repo) == {repo \o "/benchmarks/latest", repo \o "/benchmarks/latest-results"}

(* C16: no step removes a key from the bucket, and a step changes the      *)
(* bytes of at most the key its invocation uploads.  An upload to a key    *)
(* that is already stored goes to `latest` or `latest-results`, or to a    *)
(* timestamped key of the very time token of the uploading invocation.     *)
C16_AppendMostly ==
  [][/\ DOMAIN store \subseteq DOMAIN store'
     /\ \A p \in Procs :
          LET v == inv[p]
              n == Len(inv'[p].written)
          IN  IF n = Len(v.written) + 1
              THEN LET k == inv'[p].written[n].name
                   IN  /\ \A j \in DOMAIN store \ {k} : store'[j] = store[j]
                       /\ (k \in DOMAIN store)
                          => (/\ k \in PointerKeys(v.GitRepoURL)
                                   \cup TokenKeys(v.GitRepoURL, v.now)
                              /\ \A t \in 0..MaxTime :
                                   k \in TokenKeys(v.GitRepoURL, t) => t = v.now)
              ELSE inv'[p] # inv[p] => store' = store]_vars

\* A changed run at a later time token: `latest` holds new bytes, the
\* timestamped snapshots of the earlier token hold what they held.
C16_Witness ==
  \E p \in Procs :
    LET v == inv[p]
    IN  /\ Returned(v)
        /\ v.path = "compare"
        /\ Len(v.written) = 4
        /\ v.now > 0
        /\ store[LatestName(v)] # v.store0[LatestName(v)]
        /\ \E k \in TokenKeys(v.GitRepoURL, 0) :
             /\ k \in DOMAIN v.store0
             /\ store[k] = v.store0[k]
             /\ store[k] # v.afterBlob

\* The names the changed path writes, in the order of the claim.
ChangedOrder(v) ==
  <<LatestName(v), StampName(v), LatestResultsName(v), StampResultsName(v)>>

UploadNames(v) ==
  LET ups == CallsOf(v, "Upload")
  IN  [i \in 1..Len(ups) |-> ups[i][2]]

(* C17: on the compare path the uploads are attempted in the order         *)
(* `latest`, timestamped, `latest-results`, timestamped "-results"; the    *)
(* names attempted and the names written are at every moment prefixes of   *)
(* that order, and they differ, by the one failed attempt, only after an   *)
(* upload has failed.                                                      *)
C17_WritesArePrefix ==
  \A p \in Procs :
    LET v == inv[p]
        tried == UploadNames(v)
        done == [i \in 1..Len(v.written) |-> v.written[i].name]
    IN  (v.path = "compare")
        => (/\ Len(tried) <= 4
            /\ tried = SubSeq(ChangedOrder(v), 1, Len(tried))
            /\ done = SubSeq(ChangedOrder(v), 1, Len(done))
            /\ Len(tried) = Len(done) + (IF UploadFailed(v) THEN 1 ELSE 0))

\* The fourth upload failed after three snapshots were written.
C17_Witness ==
  \E p \in Procs :
    /\ inv[p].path = "compare"
    /\ UploadFailed(inv[p])
    /\ Len(inv[p].written) = 3

----------------------------------------------------------------------------
(* The filter, the branch, the result.                                     *)

NonZero(rows) == SelectSeq(rows, LAMBDA r : r.Change # 0)

\* The positions of the tables that have a row with a change, ascending.
KeptPositions(tables) ==
  SelectSeq([i \in 1..Len(tables) |-> i],
            LAMBDA i : NonZero(tables[i].Rows) # <<>>)

BranchOn(st, name, callOk) ==
  IF callOk /\ name \in DOMAIN st THEN "compare" ELSE "first"

\* The bucket without the keys in `gone`.
Without(st, gone) == [k \in DOMAIN st \ gone |-> st[k]]

(* C19: the step that looks `latest` up asks for that key and no other,    *)
(* and the branch it takes is the same for the bucket as it is and for     *)
(* the bucket with any of its other keys removed: compare when `latest`    *)
(* is stored and the lookup is answered, first-time otherwise.             *)
C19_BranchOnLatestOnly ==
  [][\A p \in Procs :
       (inv[p].pc = "exists" /\ inv'[p] # inv[p])
       => LET v == inv'[p]
              name == LatestName(v)
              call == v.calls[Len(v.calls)]
          IN  /\ call[1] = "Object" /\ call[2] = name
              /\ Len(CallsOf(v, "Object")) = 1
              /\ \A gone \in SUBSET (DOMAIN store \ {name}) :
                   v.path = BranchOn(Without(store, gone), name, call[3] # "failed")]_vars

\* The compare path was taken for a bucket that holds `latest` and the
\* timestamped snapshot of a first-time run, and no results key.
C19_Witness ==
  \E p \in Procs :
    LET v == inv[p]
    IN  /\ v.path = "compare"
        /\ DownloadedOk(v)
        /\ LatestResultsName(v) \notin DOMAIN v.store0
        /\ Cardinality(DOMAIN v.store0) = 2

\* The locator of a stored object.
Locator(name) == "https://storage.googleapis.com/census-demos/" \o name

(* C20: a Result that is returned maps each variant name the invocation    *)
(* wrote, and no other, to the locator of the key written under that       *)
(* name: `latest` and the timestamp on the first-time path, and those two  *)
(* with `latest-results` and the timestamp with "-results" on the changed  *)
(* path.  The first-time Result has afterBlob as Benchmarks and an empty   *)
(* HTMLBenchmarks.                                                         *)
C20_LocatorPerSnapshot ==
  \A p \in Procs :
    LET v == inv[p]
        res == v.results
        stamp == nowUniqPrefix(v.now)
    IN  (res.kind = "Result")
        => (/\ Cardinality(DOMAIN res.URLs) = Len(v.written)
            /\ \A i \in 1..Len(v.written) :
                 \E variant \in DOMAIN res.URLs :
                   /\ v.written[i].name = v.GitRepoURL \o "/benchmarks/" \o variant
                   /\ res.URLs[variant] = Locator(v.written[i].name)
            /\ (v.path = "first")
               => (/\ DOMAIN res.URLs = {"latest", stamp}
                   /\ res.Benchmarks = v.afterBlob
                   /\ res.HTMLBenchmarks = <<>>)
            /\ (v.path = "compare")
               => (/\ DOMAIN res.URLs = {"latest", stamp, "latest-results",
                                         stamp \o "-results"}
                   /\ res.HTMLBenchmarks # <<>>))

\* A changed run has returned its Result, with four locators.
C20_Witness ==
  \E p \in Procs :
    /\ Returned(inv[p])
    /\ inv[p].err = NoErr
    /\ inv[p].results.kind = "Result"
    /\ inv[p].path = "compare"
    /\ Cardinality(DOMAIN inv[p].results.URLs) = 4

----------------------------------------------------------------------------
(* Retries and the pointers.                                               *)

(* C21: the invocation before this one, for the same repository, failed    *)
(* on an upload after it had written `latest`, and this one measures the   *)
(* bytes that `latest` now holds.  If none of its collaborator calls       *)
(* fails, it downloads those bytes as its baseline, finds every row        *)
(* unchanged, returns ErrNoChanges with a nil result, uploads nothing and  *)
(* sends no email: the bucket stays as the failed invocation left it, and  *)
(* the client is told "No changes detected!".                              *)
C21_RetryAfterPartialWrite ==
  \A p \in Procs :
    LET v == inv[p]
        prev == last[v.GitRepoURL]
    IN  (/\ Returned(v)
         /\ prev.outcome = "failed"
         /\ prev.wrote >= 1
         /\ prev.afterBlob = v.afterBlob
         /\ LatestName(v) \in DOMAIN v.store0
         /\ Baseline(v) = v.afterBlob
         /\ NoCallFailed(v))
        => (/\ v.path = "compare"
            /\ v.before = v.afterBlob
            /\ AllUnchanged(v.tables)
            /\ v.err = ErrNoChanges
            /\ v.results = NilResult
            /\ ~Made(v, "Upload")
            /\ ~Made(v, "SendEmail")
            /\ v.written = <<>>
            /\ store = v.store0
            /\ Response(v.results, v.err).body = "No changes detected!")

\* The retry of a first-time run that failed on its second upload: the
\* bucket holds `latest` and nothing else.
C21_WitnessFirstTime ==
  \E p \in Procs :
    LET v == inv[p]
        prev == last[v.GitRepoURL]
    IN  /\ Returned(v)
        /\ v.err = ErrNoChanges
        /\ prev.outcome = "failed" /\ prev.wrote = 1
        /\ prev.afterBlob = v.afterBlob
        /\ DOMAIN store = {LatestName(v)}

\* The retry of a changed run that failed on its third upload: the bucket
\* holds the new measurements under `latest` and no `latest-results`.
C21_Witness ==
  \E p \in Procs :
    LET v == inv[p]
        prev == last[v.GitRepoURL]
    IN  /\ Returned(v)
        /\ v.err = ErrNoChanges
        /\ prev.outcome = "failed" /\ prev.wrote = 2
        /\ prev.afterBlob = v.afterBlob
        /\ store[LatestName(v)] = v.afterBlob
        /\ LatestResultsName(v) \notin DOMAIN store
        /\ Cardinality(DOMAIN store) > 2

\* Benchmark in a second for which the repository has no timestamped
\* snapshot: the invocation shares its time token with no earlier one that
\* wrote.
BenchmarkFresh(p) ==
  /\ TokenKeys(inv[p].GitRepoURL, clock) \cap DOMAIN store = {}
  /\ Benchmark(p)

\* Step of an invocation none of whose uploads fails.
StepNoWriteFails(p) ==
  \/ \E cmdOk \in BOOLEAN, output \in Outputs :
       /\ (~cmdOk => output = <<>>)
       /\ RunCommand(p, cmdOk, output)
  \/ BenchmarkFresh(p)
  \/ \E callOk \in BOOLEAN : CheckExists(p, callOk)
  \/ UploadFirst(p, "ok")
  \/ \E outcome \in DownloadOutcomes : Download(p, outcome)
  \/ UploadChanged(p, "ok")
  \/ \E sendOk \in BOOLEAN : SendEmail(p, sendOk)
  \/ Respond(p)

\* Requests for one repository, served one at a time, in seconds of their
\* own, on a bucket that takes every upload.
NextNoWriteFails ==
  \/ \E p \in Procs, e \in RecipientLists : AcceptSerial(p, "A", e)
  \/ \E p \in Procs : StepNoWriteFails(p)
  \/ Tick

NoWriteFailsSpec == Init /\ [][NextNoWriteFails]_vars

\* The time tokens for which the bucket holds the key token(t).
TokensStored(token(_)) == {t \in 0..MaxTime : token(t) \in DOMAIN store}

Latest(set) == CHOOSE t \in set : \A u \in set : u <= t

RawKey(repo, t) ==
  repo \o "/benchmarks/1970-1-" \o ToString((t \div DayLen) + 1) \o "/" \o ToString(t)

ResultsKey(repo, t) == RawKey(repo, t) \o "-results"

(* C22: between invocations (no handler serves a request), when no upload  *)
(* failed and no invocation wrote in the second of an earlier one: if      *)
(* `latest` is stored, so is a timestamped raw snapshot, and `latest`      *)
(* holds the bytes of the one with the latest time token; if               *)
(* `latest-results` is stored, so is a timestamped results snapshot, and   *)
(* `latest-results` holds the bytes of the one with the latest time token. *)
C22_PointersFollowNewest ==
  \A repo \in Repos :
    LET raw == TokensStored(LAMBDA t : RawKey(repo, t))
        res == TokensStored(LAMBDA t : ResultsKey(repo, t))
        latest == repo \o "/benchmarks/latest"
        latestResults == repo \o "/benchmarks/latest-results"
    IN  (\A p \in Procs : inv[p].pc = "idle")
        => (/\ (latest \in DOMAIN store)
               => (/\ raw # {}
                   /\ store[latest] = store[RawKey(repo, Latest(raw))])
            /\ (latestResults \in DOMAIN store)
               => (/\ res # {}
                   /\ store[latestResults] = store[ResultsKey(repo, Latest(res))]))

\* Two invocations have written, in different seconds and different
\* bytes; both pointers are stored.
C22_Witness ==
  /\ \A p \in Procs : inv[p].pc = "idle"
  /\ "A/benchmarks/latest-results" \in DOMAIN store
  /\ Cardinality(TokensStored(LAMBDA t : RawKey("A", t))) >= 2
  /\ RawKey("A", 0) \in DOMAIN store
  /\ store[RawKey("A", 0)] # store["A/benchmarks/latest"]

====
